---- MODULE Spec2Model ----
(***************************************************************************)
(* Toggle containers of advanced-react-component-patterns.                 *)
(*                                                                         *)
(* Spec      RenderPropsToggle (part_000:161-202): state, toggle, reset,   *)
(*           getTogglerProps, render, driven by React's batched setState.  *)
(* TreeSpec  Toggle publishing the legacy context key __toggle__ and the   *)
(*           readers below it (direct readers and the withToggle variants).*)
(***************************************************************************)
EXTENDS Integers, Sequences, FiniteSets, TLC

\* Total number of setState requests (toggle()/reset() calls) in one behaviour.
MaxRequests == 4

\* Number of button activations handled within one event of the context tree.
MaxTreeBatch == 2

VARIABLES
    ownerProps,     \* the props the owner wrote on <RenderPropsToggle ... />
    defaultOn,      \* this.props.defaultOn
    initialState,   \* this.initialState
    state,          \* this.state
    updateQueue,    \* setState calls enqueued and not yet processed
    callbackQueue,  \* setState callbacks of the batch being committed
    phase,          \* "constructed" | "idle" | "event" (in a batched handler) | "commit"
    requests,       \* number of setState calls made so far
    batches,        \* number of batches processed so far
    log,            \* invocations of props.onToggle / props.onReset, in order
    overrides,      \* argument the render callback gave getTogglerProps
    attrs,          \* attribute set getTogglerProps returned in the last render
    rendered,       \* number of render() calls and the ctx.on of the last one
    activation,     \* functions invoked by the last activation of attrs.onClick
    variant,        \* which source variant of the readers the tree is built from
    callerProps,    \* parameters P the caller gives every reader
    toggleState,    \* this.state of the Toggle containers A and B (B inside A)
    treeQueue,      \* containers whose toggle() was requested in this event
    treePhase,      \* "constructed" | "idle" | "event"
    views,          \* last rendering of the readers below each container
    outside         \* last rendering of a reader with no enclosing container

containerVars == <<ownerProps, defaultOn, initialState, state, updateQueue, callbackQueue,
                   phase, requests, batches, log, overrides, attrs, rendered,
                   activation>>

treeVars == <<variant, callerProps, toggleState, treeQueue, treePhase, views, outside>>

vars == <<ownerProps, defaultOn, initialState, state, updateQueue, callbackQueue, phase,
          requests, batches, log, overrides, attrs, rendered, activation,
          variant, callerProps, toggleState, treeQueue, treePhase, views, outside>>

----------------------------------------------------------------------------
(* Object helpers *)

\* {...a, ...b} / Object.assign({}, a, b): keys of b win.
Assign(a, b) ==
    [k \in (DOMAIN a) \cup (DOMAIN b) |-> IF k \in DOMAIN b THEN b[k] ELSE a[k]]

\* const {k, ...rest} = o : the rest object.
Rest(o, k) ==
    [j \in (DOMAIN o) \ {k} |-> o[j]]

\* pre-batch value negated n times
NegN(b, n) ==
    IF n % 2 = 0 THEN b ELSE ~b

----------------------------------------------------------------------------
(* RenderPropsToggle.toggle / reset and React's update queue *)

\* variant: negates the this.state snapshot instead of the queue's previous state
toggleUpdaterStale(prevState) ==
    [on |-> ~state.on]

\* ({ on }) => ({ on: !on })
toggleUpdater(prevState) ==
    [on |-> ~prevState.on]

\* variant: the default of defaultOn is true
defaultPropsOn ==
    [defaultOn |-> TRUE]

\* static defaultProps = { defaultOn: false, onToggle: () => {}, onReset: () => {} }
defaultProps ==
    [defaultOn |-> FALSE]

\* what an owner may write for defaultOn: nothing, true or false
OwnerProps ==
    {[k \in {} |-> FALSE], [defaultOn |-> TRUE], [defaultOn |-> FALSE]}

\* this.props: the owner's props over the class's defaultProps
propsOf(given) ==
    Assign(defaultProps, given)

\* variant: a hard-coded default instead of the construction value
initialStateHardDefault(propsDefaultOn) ==
    [on |-> FALSE]

\* initialState = { on: this.props.defaultOn }
initialStateOf(propsDefaultOn) ==
    [on |-> propsDefaultOn]

\* the two setState calls of the class: toggle() and reset()
toggleUpdate(id, nested) ==
    [payload |-> "updater", callback |-> "onToggle", id |-> id, nested |-> nested]

resetUpdate(id, nested) ==
    [payload |-> "initialState", callback |-> "onReset", id |-> id, nested |-> nested]

\* variant: the callback passes the value its update was applied to
callbackArgBeforeUpdate(st, cb) ==
    cb.prev

\* () => { this.props.onToggle(this.state.on) }: the argument is read from
\* this.state when the callback runs
callbackArg(st, cb) ==
    st.on

\* setState(payload): a function payload is called with the previous state of
\* the queue, an object payload is taken as is; the result is merged.
getStateFromUpdate(update, prevState) ==
    IF update.payload = "updater"
    THEN Assign(prevState, toggleUpdater(prevState))
    ELSE Assign(prevState, initialState)

RECURSIVE processUpdateQueue(_, _)
processUpdateQueue(queue, prevState) ==
    IF queue = <<>> THEN prevState
    ELSE processUpdateQueue(Tail(queue), getStateFromUpdate(Head(queue), prevState))

\* the callbacks of a processed queue, in queue order, each with the state
\* its update was applied to (prev) and the state it produced (next)
RECURSIVE queueCallbacks(_, _, _, _)
queueCallbacks(queue, prevState, batch, size) ==
    IF queue = <<>> THEN <<>>
    ELSE LET u == Head(queue)
             n == getStateFromUpdate(u, prevState)
         IN  <<[callback |-> u.callback, id |-> u.id, nested |-> u.nested,
                prev |-> prevState.on, next |-> n.on,
                batch |-> batch, size |-> size,
                last |-> (Len(queue) = 1)]>>
             \o queueCallbacks(Tail(queue), n, batch, size)

----------------------------------------------------------------------------
(* JavaScript values of the context tree *)

Undef ==
    [type |-> "undefined"]

Bool(b) ==
    [type |-> "boolean", value |-> b]

Fn(name) ==
    [type |-> "function", name |-> name]

Obj(fields) ==
    [type |-> "object", fields |-> fields]

Children ==
    [type |-> "string", text |-> "children"]

\* an object with no own properties
NoProps ==
    [k \in {} |-> Undef]

\* o[k]: a missing property reads as undefined
Get(o, k) ==
    IF k \in DOMAIN o THEN o[k] ELSE Undef

\* v ? ... : ...
Truthy(v) ==
    CASE v.type = "boolean"   -> v.value
      [] v.type = "undefined" -> FALSE
      [] OTHER                -> TRUE

\* {...v}: spreading undefined adds nothing
SpreadOf(v) ==
    IF v.type = "object" THEN v.fields ELSE NoProps

\* const {a, b} = v throws a TypeError when v is undefined
CanDestructure(v) ==
    v.type # "undefined"

----------------------------------------------------------------------------
(* Toggle.getChildContext and the readers *)

TOGGLE_CONTEXT ==
    "__toggle__"

\* A is the outer Toggle, B a Toggle rendered among A's children
Containers ==
    {"A", "B"}

Units ==
    {"On", "Off", "Button"}

\* part_001 reads the context in the unit; part_000:303-364 spreads the channel
\* value into the props; App.js:98-110 passes it under the `toggle` prop;
\* part_002:99-111 and part_000:100-120 also forward innerRef; App.js:185-219
\* uses no context, Toggle clones its children with on and toggle
Variants ==
    {"direct", "spread", "namespaced", "forwarding", "clone"}

\* the variants whose units read the context key
ContextReaders ==
    {"direct", "spread", "namespaced", "forwarding"}

\* the variants whose units are wrapped by a withToggle
Decorated ==
    {"spread", "namespaced", "forwarding"}

\* Component.name of the unit handed to withToggle: the arrow functions of
\* part_000:303-313 are anonymous, the others are named by their const
componentName(v, unit) ==
    IF v = "spread" THEN ""
    ELSE CASE unit = "On"     -> "ToggleOn"
           [] unit = "Off"    -> "ToggleOff"
           [] unit = "Button" -> "ToggleButton"

\* a || b on names
OrName(a, b) ==
    IF a # "undefined" /\ a # "" THEN a ELSE b

\* Wrapper.displayName = `withToggle(${Component.displayName || Component.name})`
wrapperDisplayName(v, unit) ==
    <<"withToggle(", OrName("undefined", componentName(v, unit)), ")">>

\* <Component ref=... {...props} />: the element a wrapper returns
Element(unit, ref, props) ==
    [type |-> unit, ref |-> ref, props |-> props]

\* variant: publishes the construction-time value instead of this.state.on
getChildContextInitial(inst, st) ==
    [k \in {TOGGLE_CONTEXT} |-> Obj([on |-> Bool(FALSE), toggle |-> Fn(inst)])]

\* getChildContext() { return { [TOGGLE_CONTEXT]: { on: this.state.on, toggle: this.toggle } } }
getChildContext(inst, st) ==
    [k \in {TOGGLE_CONTEXT} |-> Obj([on |-> Bool(st[inst].on), toggle |-> Fn(inst)])]

\* the legacy context below a container: the parent's context with the
\* container's child context assigned over it; nothing above A
contextBelow(inst, st) ==
    IF inst = "A"
    THEN Assign(NoProps, getChildContext("A", st))
    ELSE Assign(Assign(NoProps, getChildContext("A", st)), getChildContext("B", st))

\* a view: what one rendering of a unit did
View(error, channel, on, toggle, shows, switchOn, onClick) ==
    [error |-> error, channel |-> channel, on |-> on, toggle |-> toggle,
     shows |-> shows, switchOn |-> switchOn, onClick |-> onClick]

Thrown(channel) ==
    View(TRUE, channel, Undef, Undef, FALSE, Undef, Undef)

\* variant: ToggleOff written with ToggleOn's condition
unitBodyOffLikeOn(unit, channel, on, toggle, props, rest) ==
    CASE unit \in {"On", "Off"} ->
           View(FALSE, channel, on, Undef,
                Truthy(on) /\ Truthy(Get(props, "children")), Undef, Undef)
      [] unit = "Button" ->
           LET switch == Assign([on |-> on, onClick |-> toggle], rest)
           IN  View(FALSE, channel, on, toggle, FALSE,
                    switch["on"], switch["onClick"])

\* ToggleOn / ToggleOff / ToggleButton once `on` and `toggle` are in hand:
\* on ? children : null, on ? null : children, <Switch on onClick {...props}/>
unitBody(unit, channel, on, toggle, props, rest) ==
    CASE unit = "On"  ->
           View(FALSE, channel, on, Undef,
                Truthy(on) /\ Truthy(Get(props, "children")), Undef, Undef)
      [] unit = "Off" ->
           View(FALSE, channel, on, Undef,
                ~Truthy(on) /\ Truthy(Get(props, "children")), Undef, Undef)
      [] unit = "Button" ->
           LET switch == Assign([on |-> on, onClick |-> toggle], rest)
           IN  View(FALSE, channel, on, toggle, FALSE,
                    switch["on"], switch["onClick"])

\* part_001:27-48: const {on, toggle} = context[TOGGLE_CONTEXT]
directUnit(unit, props, context) ==
    LET c == Get(context, TOGGLE_CONTEXT)
    IN  IF ~CanDestructure(c) THEN Thrown(c)
        ELSE unitBody(unit, c, Get(c.fields, "on"), Get(c.fields, "toggle"),
                      props, props)

\* part_000:303-313: ({children, on}) / ({on, toggle, ...props})
spreadUnit(unit, props, channel) ==
    unitBody(unit, channel, Get(props, "on"), Get(props, "toggle"), props,
             Rest(Rest(props, "on"), "toggle"))

\* part_002:30-46: ({children, toggle: {on}}) / ({toggle: {on, toggle}, ...props})
namespacedUnit(unit, props, channel) ==
    LET t == Get(props, "toggle")
    IN  IF ~CanDestructure(t) THEN Thrown(channel)
        ELSE unitBody(unit, channel, Get(t.fields, "on"), Get(t.fields, "toggle"),
                      props, Rest(props, "toggle"))

\* part_000:355-364: <Component {...toggleContext} {...props} />; no
\* displayName is set, the wrapper goes by its function name
withToggleSpread(unit, props, context) ==
    LET toggleContext == Get(context, TOGGLE_CONTEXT)
        element == Element(unit, Undef, Assign(SpreadOf(toggleContext), props))
    IN  Assign(spreadUnit(unit, element.props, toggleContext),
               [element |-> element, displayName |-> <<"Wrapper">>])

\* App.js:98-110: <Component {...props} toggle={toggleContext} />
withToggle(unit, props, context) ==
    LET toggleContext == Get(context, TOGGLE_CONTEXT)
        element == Element(unit, Undef, Assign(props, [toggle |-> toggleContext]))
    IN  Assign(namespacedUnit(unit, element.props, toggleContext),
               [element |-> element,
                displayName |-> wrapperDisplayName("namespaced", unit)])

\* part_002:99-111, part_000:100-120: function Wrapper({innerRef, ...props}, context)
\* returns <Component ref={innerRef} {...props} toggle={toggleContext} />
withToggleInnerRef(unit, allProps, context) ==
    LET toggleContext == Get(context, TOGGLE_CONTEXT)
        innerRef == Get(allProps, "innerRef")
        props == Rest(allProps, "innerRef")
        element == Element(unit, innerRef, Assign(props, [toggle |-> toggleContext]))
    IN  Assign(namespacedUnit(unit, element.props, toggleContext),
               [element |-> element,
                displayName |-> wrapperDisplayName("forwarding", unit)])

\* rendering <Toggle.On>, <Toggle.Off> or <Toggle.Button> of a variant
renderUnit(v, unit, props, context) ==
    CASE v = "direct"     ->
           Assign(directUnit(unit, props, context),
                  [element |-> Element(unit, Undef, props),
                   displayName |-> <<componentName(v, unit)>>])
      [] v = "spread"     -> withToggleSpread(unit, props, context)
      [] v = "namespaced" -> withToggle(unit, props, context)
      [] v = "forwarding" -> withToggleInnerRef(unit, props, context)
      [] v = "clone"      ->
           Assign(spreadUnit(unit, props, Undef),
                  [element |-> Element(unit, Undef, props),
                   displayName |-> <<componentName(v, unit)>>])

\* the parameters a caller may give a reader: children, and any of the
\* names on, toggle and innerRef
CallerProps ==
    {Assign(Assign([children |-> Children], extra), ref) :
        extra \in {NoProps}
            \cup {[on |-> Bool(b)] : b \in BOOLEAN}
            \cup {[toggle |-> Fn("caller")]}
            \cup {[on |-> Bool(b), toggle |-> Fn("caller")] : b \in BOOLEAN},
        ref \in {NoProps, [innerRef |-> Fn("callerRef")]}}

\* React.cloneElement(child, {on: this.state.on, toggle: this.toggle}): the
\* child's props with the container's two assigned over them
cloneElement(props, inst, st) ==
    Assign(props, [on |-> Bool(st[inst].on), toggle |-> Fn(inst)])

\* one reader below container c: with the context at its place, or, in the
\* clone variant, with the props its Toggle cloned in (its channel value)
renderReader(v, c, u, props, st) ==
    IF v = "clone"
    THEN Assign(renderUnit(v, u, cloneElement(props, c, st), NoProps),
                [channel |-> Obj([on |-> Bool(st[c].on), toggle |-> Fn(c)])])
    ELSE renderUnit(v, u, props, contextBelow(c, st))

\* variant: the Off readers are rendered from the state before the update
renderTreeStaleOff(v, props, st) ==
    [c \in Containers |->
        [u \in Units |->
            renderReader(v, c, u, props, IF u = "Off" THEN toggleState ELSE st)]]

\* every reader below every container renders in one pass from one state
renderTree(v, props, st) ==
    [c \in Containers |->
        [u \in Units |-> renderReader(v, c, u, props, st)]]

\* nothing rendered
NoView ==
    [rendered |-> FALSE, unit |-> "On", view |-> Thrown(Undef)]

TreeConstructed ==
    /\ toggleState = [c \in Containers |-> [on |-> FALSE]]
    /\ treeQueue = <<>>
    /\ treePhase = "constructed"
    /\ views = [c \in Containers |-> [u \in Units |-> Thrown(Undef)]]
    /\ outside = NoView

----------------------------------------------------------------------------
(* getTogglerProps and compose *)

\* the value of a missing property or argument
Undefined ==
    "undefined"

\* variant: the first truthy function replaces the others
composeFirstWins(funcs) ==
    LET truthy == SelectSeq(funcs, LAMBDA fn : fn # "undefined")
    IN  IF truthy = <<>> THEN <<>> ELSE <<Head(truthy)>>

\* compose(...funcs): the function that calls every truthy fn in order
compose(funcs) ==
    funcs

\* calling a composed function: funcs.forEach(fn => fn && fn(...args))
Invoke(composed) ==
    SelectSeq(composed, LAMBDA fn : fn # Undefined)

\* variant: the computed attributes are spread after the caller's
getTogglerPropsDefaultsLast(ov, st) ==
    LET onClick == IF "onClick" \in DOMAIN ov THEN ov["onClick"].fn ELSE "undefined"
        props   == Rest(ov, "onClick")
    IN  Assign(props,
               [k \in {"aria-expanded", "onClick"} |->
                   IF k = "aria-expanded"
                   THEN [on |-> st.on]
                   ELSE [composed |-> <<onClick, "toggle">>]])

\* getTogglerProps = ({ onClick, ...props } = {}) => ({
\*   'aria-expanded': this.state.on, onClick: compose(onClick, this.toggle), ...props })
getTogglerProps(ov, st) ==
    LET onClick == IF "onClick" \in DOMAIN ov THEN ov["onClick"].fn ELSE Undefined
        props   == Rest(ov, "onClick")
    IN  Assign([k \in {"aria-expanded", "onClick"} |->
                   IF k = "aria-expanded"
                   THEN [on |-> st.on]
                   ELSE [composed |-> compose(<<onClick, "toggle">>)]],
               props)

\* what a render callback may pass to getTogglerProps: nothing, or an object
\* with any of an activation handler, the expanded-state key, another key
OverrideValues(k) ==
    CASE k = "onClick"       -> {[fn |-> "extraHandler"]}
      [] k = "aria-expanded" -> {[on |-> TRUE], [on |-> FALSE]}
      [] k = "id"            -> {[id |-> "btn"]}

OverrideKeys == {"onClick", "aria-expanded", "id"}

Overrides ==
    UNION {{ov \in [D -> UNION {OverrideValues(k) : k \in D}] :
               \A k \in D : ov[k] \in OverrideValues(k)} : D \in SUBSET OverrideKeys}

\* no activation of the composed handler has happened in this event
NoActivation ==
    [fired |-> FALSE, handler |-> Undefined, called |-> <<>>, toggles |-> 0]

----------------------------------------------------------------------------
(* RenderPropsToggle as mounted by React *)

\* variant: render hands out the state from before the update was applied
RenderBeforeCommit(st, ov) ==
    /\ rendered' = [count |-> rendered.count + 1, on |-> state.on]
    /\ overrides' = ov
    /\ attrs' = getTogglerProps(ov, state)

\* render(): props.render({on, toggle, reset, getTogglerProps}); the render
\* callback calls getTogglerProps with an argument of its choice
Render(st, ov) ==
    /\ rendered' = [count |-> rendered.count + 1, on |-> st.on]
    /\ overrides' = ov
    /\ attrs' = getTogglerProps(ov, st)

Init ==
    /\ ownerProps \in OwnerProps
    /\ defaultOn = propsOf(ownerProps).defaultOn
    /\ initialState = initialStateOf(defaultOn)
    /\ state = initialState
    /\ updateQueue = <<>>
    /\ callbackQueue = <<>>
    /\ phase = "constructed"
    /\ requests = 0
    /\ batches = 0
    /\ log = <<>>
    /\ overrides = <<>>
    /\ attrs = <<>>
    /\ rendered = [count |-> 0, on |-> FALSE]
    /\ activation = NoActivation
    /\ TreeConstructed
    /\ variant = "namespaced"
    /\ callerProps = NoProps

\* variant: the prop getter calls toggle while rendering instead of returning it
MountCallingToggle ==
    /\ phase = "constructed"
    /\ phase' = "idle"
    /\ \E ov \in Overrides : Render(state, ov)
    /\ updateQueue' = Append(updateQueue, toggleUpdate(requests + 1, FALSE))
    /\ requests' = requests + 1
    /\ UNCHANGED treeVars
    /\ UNCHANGED <<ownerProps, defaultOn, initialState, state, callbackQueue,
                   batches, log, activation>>

\* React mounts the component: the first render()
Mount ==
    /\ phase = "constructed"
    /\ phase' = "idle"
    /\ \E ov \in Overrides : Render(state, ov)
    /\ UNCHANGED treeVars
    /\ UNCHANGED <<ownerProps, defaultOn, initialState, state, updateQueue, callbackQueue,
                   requests, batches, log, activation>>

\* setState(updater | object, callback) while React is batching or committing
enqueueSetState(update) ==
    /\ requests < MaxRequests
    /\ updateQueue' = Append(updateQueue, update)
    /\ requests' = requests + 1

\* React starts dispatching an event: handlers run inside batchedUpdates
BeginEvent ==
    /\ phase = "idle"
    /\ phase' = "event"
    /\ activation' = NoActivation
    /\ UNCHANGED treeVars
    /\ UNCHANGED <<ownerProps, defaultOn, initialState, state, updateQueue, callbackQueue,
                   requests, batches, log, overrides, attrs, rendered>>

\* toggle = () => this.setState(({ on }) => ({ on: !on }), () => {...})
Toggle ==
    /\ phase = "event"
    /\ enqueueSetState(toggleUpdate(requests + 1, FALSE))
    /\ UNCHANGED treeVars
    /\ UNCHANGED <<ownerProps, defaultOn, initialState, state, callbackQueue, phase,
                   batches, log, overrides, attrs, rendered, activation>>

\* reset = () => { this.setState(this.initialState, () => {...}) }
Reset ==
    /\ phase = "event"
    /\ enqueueSetState(resetUpdate(requests + 1, FALSE))
    /\ UNCHANGED treeVars
    /\ UNCHANGED <<ownerProps, defaultOn, initialState, state, callbackQueue, phase,
                   batches, log, overrides, attrs, rendered, activation>>

\* the element that received getTogglerProps(...) is activated: its onClick,
\* compose(onClick, this.toggle), runs
Activate ==
    /\ phase = "event"
    /\ LET called == Invoke(attrs["onClick"].composed)
           toggles == SelectSeq(called, LAMBDA fn : fn = "toggle")
       IN  /\ activation' = [fired |-> TRUE,
                             handler |-> IF "onClick" \in DOMAIN overrides
                                         THEN overrides["onClick"].fn ELSE Undefined,
                             called |-> called,
                             toggles |-> Len(toggles)]
           /\ requests + Len(toggles) <= MaxRequests
           /\ updateQueue' = updateQueue \o
                 [i \in 1..Len(toggles) |-> toggleUpdate(requests + i, FALSE)]
           /\ requests' = requests + Len(toggles)
    /\ UNCHANGED treeVars
    /\ UNCHANGED <<ownerProps, defaultOn, initialState, state, callbackQueue, phase,
                   batches, log, overrides, attrs, rendered>>

\* React processes the queued updates in order, assigns this.state, renders,
\* and holds the callbacks for the commit
performWork(ov) ==
    LET next == processUpdateQueue(updateQueue, state)
    IN  /\ state' = next
        /\ callbackQueue' = queueCallbacks(updateQueue, state, batches + 1,
                                           Len(updateQueue))
        /\ updateQueue' = <<>>
        /\ batches' = batches + 1
        /\ phase' = "commit"
        /\ Render(next, ov)

\* the event handler returns: the batch is flushed
EndEvent ==
    /\ phase = "event"
    /\ IF updateQueue = <<>>
       THEN /\ phase' = "idle"
            /\ UNCHANGED <<state, updateQueue, callbackQueue, batches,
                           overrides, attrs, rendered>>
       ELSE \E ov \in Overrides : performWork(ov)
    /\ UNCHANGED treeVars
    /\ UNCHANGED <<ownerProps, defaultOn, initialState, requests, log, activation>>

\* what the owner's onToggle / onReset does with the container: nothing, or
\* a re-entrant toggle() or reset()
CallbackBodies == {"none", "toggle", "reset"}

\* () => { this.props.onToggle(this.state.on) } / this.props.onReset(this.state.on)
RunCallback ==
    /\ phase = "commit"
    /\ callbackQueue # <<>>
    /\ LET cb == Head(callbackQueue)
       IN  /\ log' = Append(log, Assign(cb, [arg |-> callbackArg(state, cb)]))
           /\ callbackQueue' = Tail(callbackQueue)
           /\ \E body \in CallbackBodies :
                CASE body = "none"   -> UNCHANGED <<updateQueue, requests>>
                  [] body = "toggle" -> enqueueSetState(toggleUpdate(requests + 1, TRUE))
                  [] body = "reset"  -> enqueueSetState(resetUpdate(requests + 1, TRUE))
    /\ UNCHANGED treeVars
    /\ UNCHANGED <<ownerProps, defaultOn, initialState, state, phase, batches,
                   overrides, attrs, rendered, activation>>

\* the commit is over: updates requested by its callbacks are processed now
FinishCommit ==
    /\ phase = "commit"
    /\ callbackQueue = <<>>
    /\ IF updateQueue = <<>>
       THEN /\ phase' = "idle"
            /\ UNCHANGED <<state, updateQueue, callbackQueue, batches,
                           overrides, attrs, rendered>>
       ELSE \E ov \in Overrides : performWork(ov)
    /\ UNCHANGED treeVars
    /\ UNCHANGED <<ownerProps, defaultOn, initialState, requests, log, activation>>

Next ==
    \/ Mount
    \/ BeginEvent
    \/ Toggle
    \/ Reset
    \/ Activate
    \/ EndEvent
    \/ RunCallback
    \/ FinishCommit

Spec == Init /\ [][Next]_vars

----------------------------------------------------------------------------
(* The Toggle context tree as mounted by React (TreeSpec) *)

\* the queued toggle updaters, each applied to the state left by the one before
RECURSIVE processTreeQueue(_, _)
processTreeQueue(queue, st) ==
    IF queue = <<>> THEN st
    ELSE processTreeQueue(Tail(queue),
            [st EXCEPT ![Head(queue)] = Assign(@, toggleUpdater(@))])

TreeInit ==
    /\ ownerProps = [k \in {} |-> FALSE]
    /\ defaultOn = propsOf(ownerProps).defaultOn
    /\ initialState = initialStateOf(defaultOn)
    /\ state = initialState
    /\ updateQueue = <<>>
    /\ callbackQueue = <<>>
    /\ phase = "constructed"
    /\ requests = 0
    /\ batches = 0
    /\ log = <<>>
    /\ overrides = <<>>
    /\ attrs = <<>>
    /\ rendered = [count |-> 0, on |-> FALSE]
    /\ activation = NoActivation
    /\ TreeConstructed
    /\ variant \in Variants
    /\ callerProps \in CallerProps

\* React mounts <Toggle>...<Toggle>...</Toggle></Toggle>
TreeMount ==
    /\ treePhase = "constructed"
    /\ treePhase' = "idle"
    /\ views' = renderTree(variant, callerProps, toggleState)
    /\ UNCHANGED <<variant, callerProps, toggleState, treeQueue, outside>>
    /\ UNCHANGED containerVars

\* a reader of the variant is rendered on its own, below no Toggle
RenderOutside ==
    /\ treePhase = "idle"
    /\ \E u \in Units :
         outside' = [rendered |-> TRUE, unit |-> u,
                     view |-> renderUnit(variant, u, callerProps, NoProps)]
    /\ UNCHANGED <<variant, callerProps, toggleState, treeQueue, treePhase, views>>
    /\ UNCHANGED containerVars

TreeBeginEvent ==
    /\ treePhase = "idle"
    /\ treePhase' = "event"
    /\ UNCHANGED <<variant, callerProps, toggleState, treeQueue, views, outside>>
    /\ UNCHANGED containerVars

\* the Switch of the Toggle.Button below container c is clicked: its onClick
\* runs; when that is a container's toggle, its setState is queued
ClickButton ==
    /\ treePhase = "event"
    /\ Len(treeQueue) < MaxTreeBatch
    /\ \E c \in Containers :
         LET onClick == views[c]["Button"].onClick
         IN  /\ onClick.type = "function"
             /\ treeQueue' = IF onClick.name \in Containers
                             THEN Append(treeQueue, onClick.name)
                             ELSE treeQueue
    /\ UNCHANGED <<variant, callerProps, toggleState, treePhase, views, outside>>
    /\ UNCHANGED containerVars

\* the event is over: the queued updates are processed and the tree re-renders
\* (props.onToggle is the default no-op / console.log of the examples)
TreeEndEvent ==
    /\ treePhase = "event"
    /\ treePhase' = "idle"
    /\ LET next == processTreeQueue(treeQueue, toggleState)
       IN  /\ toggleState' = next
           /\ views' = IF treeQueue = <<>> THEN views
                       ELSE renderTree(variant, callerProps, next)
    /\ treeQueue' = <<>>
    /\ UNCHANGED <<variant, callerProps, outside>>
    /\ UNCHANGED containerVars

TreeNext ==
    \/ TreeMount
    \/ RenderOutside
    \/ TreeBeginEvent
    \/ ClickButton
    \/ TreeEndEvent

TreeSpec == TreeInit /\ [][TreeNext]_vars

----------------------------------------------------------------------------
(* Properties of toggle, reset and their callbacks (Spec) *)

\* the callbacks of the batch being committed, run and not yet run
CurrentBatch ==
    SelectSeq(log \o callbackQueue, LAMBDA e : e.batch = batches)

AllToggles(es) ==
    \A i \in DOMAIN es : es[i].callback = "onToggle"

\* C1: every onToggle invocation receives the nextOn that its own toggle()
\* computed, and no toggle() has its callback invoked twice, also when several
\* toggle() calls are requested before the previous one has committed.
C1_OnToggleReceivesOwnNextOn ==
    /\ \A i \in DOMAIN log :
          log[i].callback = "onToggle" => log[i].arg = log[i].next
    /\ \A i, j \in DOMAIN log : log[i].id = log[j].id => i = j

\* C2: when a batch of n toggle() calls commits, the i-th one was applied to
\* the result of the one before it, and the committed state is the pre-batch
\* state negated n times.
C2_BatchedTogglesChain ==
    LET es == CurrentBatch
    IN  (phase = "commit" /\ es # <<>> /\ AllToggles(es)) =>
            /\ \A i \in DOMAIN es : es[i].next = NegN(es[1].prev, i)
            /\ state.on = NegN(es[1].prev, Len(es))

C2_Witness ==
    LET es == CurrentBatch
    IN  /\ phase = "commit"
        /\ Len(es) = 3
        /\ AllToggles(es)
        /\ state.on = ~es[1].prev

\* C3: a reset() that follows any sequence of toggle() calls commits the value
\* captured at construction, and its onReset receives that value.
C3_ResetRestoresConstructionValue ==
    /\ \A i \in DOMAIN log :
          (log[i].callback = "onReset" /\ log[i].last) =>
              /\ log[i].next = defaultOn
              /\ log[i].arg = defaultOn
    /\ LET es == CurrentBatch
       IN  (phase = "commit" /\ es # <<>> /\ es[Len(es)].callback = "onReset") =>
               state.on = defaultOn

C3_Witness ==
    /\ defaultOn = TRUE
    /\ \E i \in DOMAIN log :
          /\ log[i].callback = "onReset"
          /\ log[i].last
          /\ log[i].prev = FALSE
          /\ log[i].arg = TRUE
          /\ state.on = TRUE

\* C6 (as stated): whatever the overrides, the returned attribute set has the
\* expanded-state attribute and its value is the container's current on.
C6_AriaExpandedAlwaysOn ==
    rendered.count > 0 =>
        /\ "aria-expanded" \in DOMAIN attrs
        /\ attrs["aria-expanded"].on = state.on

\* C6 (amended): the returned attribute set always has the expanded-state
\* attribute; its value is the container's current on unless the overrides
\* carry that key, in which case it is the overrides' value.
C6_AriaExpandedUnlessOverridden ==
    rendered.count > 0 =>
        /\ "aria-expanded" \in DOMAIN attrs
        /\ "aria-expanded" \notin DOMAIN overrides =>
              attrs["aria-expanded"].on = state.on
        /\ "aria-expanded" \in DOMAIN overrides =>
              attrs["aria-expanded"] = overrides["aria-expanded"]

C6_Witness ==
    /\ batches > 0
    /\ "aria-expanded" \in DOMAIN overrides
    /\ overrides["aria-expanded"].on # state.on
    /\ attrs["aria-expanded"].on # state.on

\* C7: an activation invokes the caller's handler (when one was supplied) and
\* then toggle, once each and always in that order; with no handler supplied
\* it invokes toggle once.
C7_ActivationComposesHandlers ==
    activation.fired =>
        /\ activation.called =
              (IF activation.handler # Undefined
               THEN <<activation.handler, "toggle">>
               ELSE <<"toggle">>)
        /\ activation.toggles = 1

C7_Witness ==
    /\ activation.fired
    /\ activation.handler = "extraHandler"
    /\ activation.called = <<"extraHandler", "toggle">>
    /\ updateQueue # <<>>

\* C8: a toggle() made inside onToggle is applied to the state the outer
\* toggle committed: the outer onToggle receives B = !A, the nested update
\* starts from B, commits C = !B and its onToggle receives C.
C8_NestedToggleSeesCommittedState ==
    \A i \in DOMAIN log :
        (i > 1 /\ log[i].nested /\ log[i].batch # log[i-1].batch) =>
            /\ log[i].prev = log[i-1].arg
            /\ (/\ log[i].callback = "onToggle" /\ log[i].size = 1
                /\ log[i-1].callback = "onToggle" /\ log[i-1].size = 1) =>
                   /\ log[i-1].arg = ~log[i-1].prev
                   /\ log[i].next = ~log[i-1].arg
                   /\ log[i].arg = log[i].next

C8_Witness ==
    /\ Len(log) >= 2
    /\ log[1].callback = "onToggle" /\ log[1].size = 1 /\ ~log[1].nested
    /\ log[2].callback = "onToggle" /\ log[2].size = 1 /\ log[2].nested
    /\ log[2].arg = log[1].prev
    /\ state.on = log[1].prev

\* C9: two toggle() calls in sequence from state s return the state to s and
\* invoke onToggle twice, first with !s and then with s.
C9_TwoTogglesInvolution ==
    \A i \in DOMAIN log :
        (/\ i > 1
         /\ log[i-1].callback = "onToggle" /\ log[i].callback = "onToggle"
         /\ log[i].id = log[i-1].id + 1) =>
            /\ log[i].next = log[i-1].prev
            /\ log[i-1].arg = ~log[i-1].prev
            /\ log[i].arg = log[i-1].prev

C13_RenderFollowsCommit ==
    rendered.count > 0 =>
        /\ rendered.count = batches + 1
        /\ rendered.on = state.on

C13_Witness ==
    /\ phase = "commit"
    /\ batches = 2
    /\ rendered.count = 3
    /\ rendered.on # defaultOn

\* C15: rendering and the prop getter neither change the state nor request
\* a change nor invoke onToggle/onReset: the state changes only by processing
\* queued toggle/reset requests, requests are queued only while a handler or
\* callback runs, and callbacks run only in a commit.
C15_OnlyActionsMutate ==
    [][/\ state' # state =>
            (updateQueue # <<>> /\ state' = processUpdateQueue(updateQueue, state))
       /\ rendered' # rendered =>
            (/\ updateQueue' = <<>>
             /\ requests' = requests
             /\ log' = log
             /\ (updateQueue = <<>> => state' = state))
       /\ requests' # requests => (phase \in {"event", "commit"} /\ rendered' = rendered)
       /\ log' # log => (phase = "commit" /\ callbackQueue # <<>> /\ state' = state)
      ]_vars

C15_Witness ==
    /\ rendered.count = 1
    /\ phase = "idle"
    /\ "onClick" \in DOMAIN overrides
    /\ requests = 0
    /\ updateQueue = <<>>
    /\ log = <<>>
    /\ state = initialState

----------------------------------------------------------------------------
(* Properties of the context tree (TreeSpec) *)

\* the ChannelValue container c publishes now
Published(c) ==
    Obj([on |-> Bool(toggleState[c].on), toggle |-> Fn(c)])

\* C4: a reader rendered with no enclosing container fails at the read, in
\* every variant; it never renders as if on were false.
C4_ReaderOutsideContainerThrows ==
    (outside.rendered /\ variant \in ContextReaders) => outside.view.error

\* C5: a unit wrapped by withToggle uses the on and toggle of the nearest
\* container whatever parameters the caller supplied, also when these are
\* named on or toggle.
C5_DecoratedUnitSeesChannelFields ==
    (treePhase # "constructed" /\ variant \in Decorated) =>
        \A c \in Containers :
            /\ \A u \in Units : views[c][u].on = Published(c).fields["on"]
            /\ views[c]["Button"].toggle = Published(c).fields["toggle"]

\* C10: with B nested in A, every reader below A and outside B reads the
\* value A publishes now and every reader inside B the value B publishes now,
\* on and toggle together.
C10_ReadersSeeNearestContainer ==
    treePhase # "constructed" =>
        \A c \in Containers : \A u \in Units :
            /\ ~views[c][u].error
            /\ views[c][u].channel = Published(c)

C10_Witness ==
    /\ treePhase = "idle"
    /\ toggleState["A"].on /\ ~toggleState["B"].on
    /\ views["A"]["On"].channel = Obj([on |-> Bool(TRUE), toggle |-> Fn("A")])
    /\ views["B"]["On"].channel = Obj([on |-> Bool(FALSE), toggle |-> Fn("B")])

\* C11: a decorated unit rendered with innerRef has that parameter attached to
\* the inner unit's ref, not left among the inner unit's ordinary parameters,
\* and its wrapper is named after the inner unit.
C11_InnerRefForwardedAndNamed ==
    (treePhase # "constructed" /\ variant \in Decorated
        /\ "innerRef" \in DOMAIN callerProps) =>
        \A c \in Containers : \A u \in Units :
            /\ views[c][u].element.type = u
            /\ views[c][u].element.ref = callerProps["innerRef"]
            /\ "innerRef" \notin DOMAIN views[c][u].element.props
            /\ views[c][u].displayName =
                  <<"withToggle(", componentName(variant, u), ")">>

\* C14: in one render pass all readers below a container (and above a nested
\* one) get the same channel value and use the same on, and that value's on
\* is the container's committed state.
C14_ReadersCoherentInPass ==
    treePhase # "constructed" =>
        \A c \in Containers : \A u1, u2 \in Units :
            /\ views[c][u1].channel = views[c][u2].channel
            /\ views[c][u1].on = views[c][u2].on
            /\ views[c][u1].channel.fields["on"] = Bool(toggleState[c].on)

C14_Witness ==
    /\ treePhase = "idle"
    /\ toggleState["B"].on /\ ~toggleState["A"].on
    /\ \A u \in Units :
          /\ views["B"][u].channel.fields["on"] = Bool(TRUE)
          /\ views["A"][u].channel.fields["on"] = Bool(FALSE)

====
